---------------------------- MODULE Spec2Model ----------------------------
(***************************************************************************)
(* Model of gnosis-tx (src/main.go): one Safe multisig proposal is built,  *)
(* signed and submitted by sendTransaction, which runs getSafeNonce,       *)
(* getGasEstimation, the EIP-712 digest, crypto.Sign and sendGnosisTx in   *)
(* that order.  Two invocations run side by side against one coordination  *)
(* service.  Go strings are sequences of one-character strings.            *)
(***************************************************************************)
EXTENDS Integers, Sequences, FiniteSets, TLC

(* The service's sequencing counter is advanced at most up to MaxNonce.    *)
MaxNonce == 2

(* The two invocations of sendTransaction.                                 *)
Invs == {"a", "b"}

VARIABLES
  safeNonce,      \* the service's sequencing counter of the Safe
  args,           \* each invocation's arguments
  pc,             \* each invocation's position in sendTransaction
  nonce,          \* local nonce
  safeTxGas,      \* local safeTxGas
  gnosisSafeTx,   \* local gnosisSafeTx
  encodedTxHash,  \* local encodedTxHash
  signature,      \* local signature
  result,         \* what sendTransaction returned
  steps,          \* history: the steps started, in order
  stepErrs,       \* history: the error each of them came back with
  responses,      \* history: the service's answer to each network step
  rawSignature,   \* history: the signature as crypto.Sign returned it
  posted          \* history: the submit requests sent

locals == <<pc, nonce, safeTxGas, gnosisSafeTx, encodedTxHash, signature, result>>
history == <<steps, stepErrs, responses, rawSignature, posted>>
vars == <<safeNonce, args, locals, history>>

None == <<>>
Some(v) == <<v>>

---------------------------------------------------------------------------
(* Errors.  Nil is Go's nil error.                                         *)
Nil == [type |-> "nil"]
ErrTransport == [type |-> "url.Error"]
ErrRead == [type |-> "io.ReadError"]
ErrJSONSyntax == [type |-> "json.SyntaxError"]
ErrJSONType == [type |-> "json.UnmarshalTypeError"]
ErrSyntax == [type |-> "strconv.NumError", Err |-> "ErrSyntax"]
ErrRange == [type |-> "strconv.NumError", Err |-> "ErrRange"]
ErrTypedData == [type |-> "eip712.encodeError"]
ErrKey == [type |-> "crypto.invalidKey"]
errorsNew(text) == [type |-> "errors.errorString", s |-> text]

---------------------------------------------------------------------------
(* Addresses.  common.HexToAddress: strip an 0x prefix, left-pad an odd    *)
(* number of digits, decode the hex digits pairwise, keep the last         *)
(* AddressLength bytes, left-pad with zeros.                               *)
AddressLength == 20

Zeros(n) == [i \in 1..n |-> "0"]
ZERO_ADDR == <<"0", "x">> \o Zeros(2 * AddressLength)

HexDigits ==
  [c \in {"0","1","2","3","4","5","6","7","8","9",
          "a","b","c","d","e","f","A","B","C","D","E","F"} |->
     CASE c = "0" -> 0 [] c = "1" -> 1 [] c = "2" -> 2 [] c = "3" -> 3
       [] c = "4" -> 4 [] c = "5" -> 5 [] c = "6" -> 6 [] c = "7" -> 7
       [] c = "8" -> 8 [] c = "9" -> 9
       [] c \in {"a", "A"} -> 10 [] c \in {"b", "B"} -> 11
       [] c \in {"c", "C"} -> 12 [] c \in {"d", "D"} -> 13
       [] c \in {"e", "E"} -> 14 [] c \in {"f", "F"} -> 15]

has0xPrefix(s) == Len(s) >= 2 /\ s[1] = "0" /\ s[2] \in {"x", "X"}

(* hex.DecodeString, of which Hex2Bytes keeps the bytes decoded before    *)
(* the first bad digit.                                                    *)
Hex2Bytes(s) ==
  LET bad == {k \in 1..(Len(s) \div 2) :
                s[2 * k - 1] \notin DOMAIN HexDigits \/ s[2 * k] \notin DOMAIN HexDigits}
      n == IF bad = {} THEN Len(s) \div 2
           ELSE (CHOOSE k \in bad : \A m \in bad : k <= m) - 1
  IN  [k \in 1..n |-> 16 * HexDigits[s[2 * k - 1]] + HexDigits[s[2 * k]]]

FromHex(s) ==
  LET t == IF has0xPrefix(s) THEN SubSeq(s, 3, Len(s)) ELSE s
      u == IF Len(t) % 2 = 1 THEN <<"0">> \o t ELSE t
  IN  Hex2Bytes(u)

BytesToAddress(b) ==
  LET c == IF Len(b) > AddressLength
           THEN SubSeq(b, Len(b) - AddressLength + 1, Len(b)) ELSE b
  IN  [i \in 1..(AddressLength - Len(c)) |-> 0] \o c

HexToAddress(s) == BytesToAddress(FromHex(s))

---------------------------------------------------------------------------
(* strconv.ParseInt(s, 10, 64).  A magnitude is kept as its decimal digits *)
(* without leading zeros, so that the 64-bit limits can be compared.       *)
DecDigits ==
  [c \in {"0","1","2","3","4","5","6","7","8","9"} |-> HexDigits[c]]

MaxUint64 == <<1,8,4,4,6,7,4,4,0,7,3,7,0,9,5,5,1,6,1,5>>
Cutoff63 == <<9,2,2,3,3,7,2,0,3,6,8,5,4,7,7,5,8,0,8>>

RECURSIVE DigitsLess(_, _)
DigitsLess(a, b) ==
  IF Len(a) # Len(b) THEN Len(a) < Len(b)
  ELSE IF a = <<>> THEN FALSE
  ELSE IF a[1] # b[1] THEN a[1] < b[1]
  ELSE DigitsLess(Tail(a), Tail(b))

AppendDigit(n, d) == IF n = <<>> /\ d = 0 THEN <<>> ELSE Append(n, d)

RECURSIVE DigitsValue(_)
DigitsValue(n) ==
  IF n = <<>> THEN 0 ELSE 10 * DigitsValue(SubSeq(n, 1, Len(n) - 1)) + n[Len(n)]

(* ParseUint's loop over the characters, n being the value read so far.    *)
RECURSIVE ParseUintLoop(_, _)
ParseUintLoop(s, n) ==
  IF s = <<>> THEN [err |-> Nil, n |-> n]
  ELSE IF s[1] \notin DOMAIN DecDigits THEN [err |-> ErrSyntax, n |-> <<>>]
  ELSE LET n1 == AppendDigit(n, DecDigits[s[1]])
       IN  IF DigitsLess(MaxUint64, n1) THEN [err |-> ErrRange, n |-> MaxUint64]
           ELSE ParseUintLoop(Tail(s), n1)

ParseUint(s) ==
  IF s = <<>> THEN [err |-> ErrSyntax, n |-> <<>>] ELSE ParseUintLoop(s, <<>>)

(* Mutant: an empty string is read as 0.                                   *)
ParseIntEmptyIsZero(s) ==
  IF s = <<>> THEN [err |-> Nil, val |-> 0]
  ELSE LET neg == s[1] = "-"
           t == IF s[1] \in {"+", "-"} THEN Tail(s) ELSE s
           un == ParseUint(t)
       IN  IF un.err # Nil THEN [err |-> un.err, val |-> 0]
           ELSE IF ~neg /\ ~DigitsLess(un.n, Cutoff63) THEN [err |-> ErrRange, val |-> 0]
           ELSE IF neg /\ DigitsLess(Cutoff63, un.n) THEN [err |-> ErrRange, val |-> 0]
           ELSE [err |-> Nil,
                 val |-> IF neg THEN 0 - DigitsValue(un.n) ELSE DigitsValue(un.n)]

ParseInt(s) ==
  IF s = <<>> THEN [err |-> ErrSyntax, val |-> 0]
  ELSE LET neg == s[1] = "-"
           t == IF s[1] \in {"+", "-"} THEN Tail(s) ELSE s
           un == ParseUint(t)
       IN  IF un.err = ErrSyntax THEN [err |-> ErrSyntax, val |-> 0]
           ELSE IF un.err = ErrRange THEN [err |-> ErrRange, val |-> 0]
           ELSE IF ~neg /\ ~DigitsLess(un.n, Cutoff63) THEN [err |-> ErrRange, val |-> 0]
           ELSE IF neg /\ DigitsLess(Cutoff63, un.n) THEN [err |-> ErrRange, val |-> 0]
           ELSE [err |-> Nil,
                 val |-> IF neg THEN 0 - DigitsValue(un.n) ELSE DigitsValue(un.n)]

---------------------------------------------------------------------------
(* encoding/json.  A body is not JSON at all ("invalid") or a JSON value:  *)
(* null, a number, a string, an array of strings, or an object.            *)
NotJSON(raw) == [invalid |-> raw]
JNull == [null |-> TRUE]
JNum(n) == [num |-> n]
JStr(s) == [str |-> s]
JArr(a) == [arr |-> a]
JObj(f) == [obj |-> f]
IsA(v, type) == type \in DOMAIN v

(* json.Unmarshal into a struct, for the one field the caller reads: a     *)
(* syntax error for a body that is not JSON, a type error for a value that *)
(* is not an object or a field of the wrong JSON type; null, and an absent *)
(* or null field, leave the field's zero value.                            *)
Unmarshal(body, field, type, zero) ==
  IF IsA(body, "invalid") THEN [err |-> ErrJSONSyntax, val |-> zero]
  ELSE IF IsA(body, "null") THEN [err |-> Nil, val |-> zero]
  ELSE IF ~IsA(body, "obj") THEN [err |-> ErrJSONType, val |-> zero]
  ELSE IF field \notin DOMAIN body.obj THEN [err |-> Nil, val |-> zero]
  ELSE IF IsA(body.obj[field], "null") THEN [err |-> Nil, val |-> zero]
  ELSE IF IsA(body.obj[field], type) THEN [err |-> Nil, val |-> body.obj[field][type]]
  ELSE [err |-> ErrJSONType, val |-> zero]

---------------------------------------------------------------------------
(* What http.Get / http.Post and ioutil.ReadAll hand back.                 *)
StatusOK == 200
Failure == [err |-> ErrTransport]
Resp(status, body) ==
  [err |-> Nil, StatusCode |-> status, Body |-> body, readErr |-> Nil]
BrokenBody(status) ==
  [err |-> Nil, StatusCode |-> status, Body |-> NotJSON("cut"), readErr |-> ErrRead]

(* Mutant: a status other than 200 is an error.                            *)
getSafeNonceChecksStatus(resp) ==
  IF resp.err # Nil THEN [val |-> None, err |-> resp.err]
  ELSE IF resp.StatusCode # StatusOK
  THEN [val |-> None, err |-> errorsNew(<<"s","t","a","t","u","s">>)]
  ELSE IF resp.readErr # Nil THEN [val |-> None, err |-> resp.readErr]
  ELSE LET data == Unmarshal(resp.Body, "nonce", "num", 0)
       IN  IF data.err # Nil THEN [val |-> None, err |-> data.err]
           ELSE [val |-> Some(data.val), err |-> Nil]

(* getSafeNonce after the GET: the status is not read.                     *)
getSafeNonce(resp) ==
  IF resp.err # Nil THEN [val |-> None, err |-> resp.err]
  ELSE IF resp.readErr # Nil THEN [val |-> None, err |-> resp.readErr]
  ELSE LET data == Unmarshal(resp.Body, "nonce", "num", 0)
       IN  IF data.err # Nil THEN [val |-> None, err |-> data.err]
           ELSE [val |-> Some(data.val), err |-> Nil]

(* getGasEstimation after the POST.                                        *)
getGasEstimation(resp) ==
  IF resp.err # Nil THEN [val |-> None, err |-> resp.err]
  ELSE IF resp.readErr # Nil THEN [val |-> None, err |-> resp.readErr]
  ELSE LET data == Unmarshal(resp.Body, "safeTxGas", "str", <<>>)
       IN  IF data.err # Nil THEN [val |-> None, err |-> data.err]
           ELSE LET parsed == ParseInt(data.val)
                IN  IF parsed.err # Nil THEN [val |-> None, err |-> parsed.err]
                    ELSE [val |-> Some(parsed.val), err |-> Nil]

(* strings.Join                                                            *)
RECURSIVE Join(_, _)
Join(elems, sep) ==
  IF elems = <<>> THEN <<>>
  ELSE IF Len(elems) = 1 THEN elems[1]
  ELSE elems[1] \o sep \o Join(Tail(elems), sep)

(* The request sendGnosisTx marshals.                                      *)
gnosisTxRequest(from, to, amount, gas, n, hash, sig) ==
  [to |-> to, value |-> amount, data |-> JNull, operation |-> 0,
   gasToken |-> ZERO_ADDR, safeTxGas |-> gas, baseGas |-> 0,
   gasPrice |-> 0, refundReceiver |-> ZERO_ADDR, nonce |-> n,
   contractTransactionHash |-> hash, sender |-> from,
   signature |-> sig, origin |-> JNull]

(* Mutant: an empty list of messages is taken for success.                 *)
sendGnosisTxEmptyIsNil(resp) ==
  IF resp.err # Nil THEN resp.err
  ELSE IF resp.StatusCode = StatusOK THEN Nil
  ELSE IF resp.readErr # Nil THEN resp.readErr
  ELSE LET data == Unmarshal(resp.Body, "nonFieldErrors", "arr", <<>>)
       IN  IF data.err # Nil THEN data.err
           ELSE IF data.val = <<>> THEN Nil
           ELSE errorsNew(Join(data.val, <<"\n">>))

(* sendGnosisTx after the POST.                                            *)
sendGnosisTx(resp) ==
  IF resp.err # Nil THEN resp.err
  ELSE IF resp.StatusCode = StatusOK THEN Nil
  ELSE IF resp.readErr # Nil THEN resp.readErr
  ELSE LET data == Unmarshal(resp.Body, "nonFieldErrors", "arr", <<>>)
       IN  IF data.err # Nil THEN data.err
           ELSE errorsNew(Join(data.val, <<"\n">>))

---------------------------------------------------------------------------
(* The typed-data digest.  A hash is kept symbolically as the data it was  *)
(* computed from; in a byte string it stands for its 32 bytes.             *)
Keccak256Hash(bytes) == [keccak |-> bytes]
Hex(h) == [hex |-> h]

GnosisSafeTx(from, to, safe, amount, gas, n) ==
  [Sender |-> HexToAddress(from), Safe |-> HexToAddress(safe),
   To |-> HexToAddress(to), Value |-> amount, GasPrice |-> 0, Data |-> <<>>,
   Operation |-> 0, GasToken |-> HexToAddress(ZERO_ADDR),
   RefundReceiver |-> HexToAddress(ZERO_ADDR), BaseGas |-> 0,
   SafeTxGas |-> gas, Nonce |-> n]

(* GnosisSafeTx.ToTypedData: the domain is the Safe's address, the SafeTx  *)
(* message has no sender.                                                  *)
ToTypedData(tx) ==
  [PrimaryType |-> "SafeTx",
   Domain |-> [verifyingContract |-> tx.Safe],
   Message |-> [to |-> tx.To, value |-> tx.Value, data |-> tx.Data,
                operation |-> tx.Operation, safeTxGas |-> tx.SafeTxGas,
                baseGas |-> tx.BaseGas, gasPrice |-> tx.GasPrice,
                gasToken |-> tx.GasToken, refundReceiver |-> tx.RefundReceiver,
                nonce |-> tx.Nonce]]

UintFields == {"value", "operation", "safeTxGas", "baseGas", "gasPrice", "nonce"}

(* TypedData.HashStruct: a negative value of an unsigned type is refused.  *)
HashStruct(primaryType, data) ==
  IF \E f \in DOMAIN data \cap UintFields : data[f] < 0
  THEN [err |-> ErrTypedData, hash |-> None]
  ELSE [err |-> Nil, hash |-> Some(Keccak256Hash(<<primaryType, data>>))]

(* Mutant: the buffer is a package-level slice that keeps what an earlier  *)
(* invocation appended to it.                                              *)
EncodedTxSharedBuffer(domainHash, primaryTypeHash) ==
  LET earlier == {j \in Invs : encodedTxHash[j] # None}
      buffer == IF earlier = {} THEN <<1, 19>>
                ELSE encodedTxHash[CHOOSE j \in earlier : TRUE][1].keccak
  IN  buffer \o domainHash \o primaryTypeHash

(* The bytes that are hashed into the digest.                              *)
EncodedTx(domainHash, primaryTypeHash) == <<1, 19>> \o domainHash \o primaryTypeHash

(* Lines 194-226 of sendTransaction.                                       *)
BuildTxHash(tx) ==
  LET typedData == ToTypedData(tx)
      domainHash == HashStruct("EIP712Domain", typedData.Domain)
      primaryTypeHash == HashStruct(typedData.PrimaryType, typedData.Message)
  IN  IF domainHash.err # Nil THEN [err |-> domainHash.err, hash |-> None]
      ELSE IF primaryTypeHash.err # Nil THEN [err |-> primaryTypeHash.err, hash |-> None]
      ELSE [err |-> Nil,
            hash |-> Some(Keccak256Hash(EncodedTx(domainHash.hash, primaryTypeHash.hash)))]

---------------------------------------------------------------------------
(* Signing.  crypto.HexToECDSA accepts the hex of a 32-byte scalar;        *)
(* crypto.Sign returns r and s (bytes 0..63, kept here as one symbolic     *)
(* value rs) and the recovery id v (byte 64), which it documents to be 0   *)
(* or 1.                                                                   *)
GoodKey == "4c0883a69102937d6231471b5dbb6204fe5129617082792ae468d01a3f362318"
BadKey == "<SIGNER_PRIVATE_KEY>"
ValidKeys == {GoodKey}
RecoveryIds == {0, 1}

HexToECDSA(privKey) ==
  IF privKey \in ValidKeys THEN [err |-> Nil, key |-> Some([D |-> privKey])]
  ELSE [err |-> ErrKey, key |-> None]

cryptoSign(hash, privateKey, recid) ==
  [rs |-> [of |-> hash, by |-> privateKey], v |-> recid]

(* Mutant: only recovery id 0 is raised.                                   *)
NormalizeVOnlyZero(sig) ==
  IF sig.v = 0 THEN [sig EXCEPT !.v = (@ + 27) % 256] ELSE sig

(* Lines 239-241: signature[64] is a byte.                                 *)
NormalizeV(sig) ==
  IF sig.v = 0 \/ sig.v = 1 THEN [sig EXCEPT !.v = (@ + 27) % 256] ELSE sig

---------------------------------------------------------------------------
(* The caller's arguments.                                                 *)
Addr(tail) == <<"0", "x">> \o Zeros(2 * AddressLength - Len(tail)) \o tail
SAFE_ADDRESS == Addr(<<"5","a","f","e">>)
SIGNER_ADDRESS == Addr(<<"5","1","6","e">>)
RECEIVER_ADDRESS == Addr(<<"d","e","a","d">>)
RECEIVER_MIXED == Zeros(2 * AddressLength - 4) \o <<"D","e","A","d">>

CallArgs ==
  { [from |-> SIGNER_ADDRESS, to |-> RECEIVER_MIXED, safe |-> SAFE_ADDRESS,
     amount |-> 1000000, privKey |-> GoodKey],
    [from |-> SIGNER_ADDRESS, to |-> RECEIVER_ADDRESS, safe |-> SAFE_ADDRESS,
     amount |-> -1, privKey |-> GoodKey],
    [from |-> SIGNER_ADDRESS, to |-> RECEIVER_ADDRESS, safe |-> SAFE_ADDRESS,
     amount |-> 1000000, privKey |-> BadKey] }

---------------------------------------------------------------------------
(* What the coordination service may answer.                               *)
NotFound == JObj([detail |-> JStr(<<"N","o","t","F","o","u","n","d">>)])

FetchOutcomes(counter) ==
  { Failure,
    Resp(200, JObj([nonce |-> JNum(counter)])),
    Resp(404, NotFound),
    Resp(502, NotJSON("<html>")),
    Resp(200, JObj([nonce |-> JStr(<<"1">>)])),
    BrokenBody(200) }

GasStrings ==
  { <<"2","1","0","0","0">>, <<"-","0","5">>, <<>>, <<"a","b","c">>, <<"2","1","0","0","0","x">>, <<"9","2","2","3","3","7","2","0","3","6","8","5","4","7","7","5","8","0","8">> }

EstimateOutcomes ==
  { Failure, Resp(422, NotFound), Resp(502, NotJSON("<html>")), BrokenBody(200),
    Resp(200, JObj([safeTxGas |-> JNum(21000)])) }
  \cup { Resp(200, JObj([safeTxGas |-> JStr(s)])) : s \in GasStrings }

NonceTooLow == <<"N","o","n","c","e"," ","t","o","o"," ","l","o","w">>
InvalidSignature == <<"I","n","v","a","l","i","d"," ","s","i","g","n","a","t","u","r","e">>
ErrLists ==
  { <<>>, <<NonceTooLow>>, <<NonceTooLow, InvalidSignature>>,
    << <<"a","\n","b">>, <<>>, <<"c">> >> }

SubmitOutcomes ==
  { Failure, BrokenBody(400),
    Resp(200, NotJSON("")), Resp(201, NotJSON("")), Resp(400, NotJSON("")) }
  \cup { Resp(400, JObj([nonFieldErrors |-> JArr(l)])) : l \in ErrLists }

---------------------------------------------------------------------------
Order == <<"FetchNonce", "EstimateGas", "BuildDigest", "Sign", "Submit", "Done">>
StepIndex(step) == CHOOSE k \in 1..Len(Order) : Order[k] = step

(* Mutant: a failed step is tried again.                                   *)
GotoRetry(step, err) == IF err # Nil THEN step ELSE Order[StepIndex(step) + 1]

(* Mutant: the error is replaced by a generic one.                         *)
ReturnWrapped(err) == Some(errorsNew(<<"f","a","i","l","e","d">>))

(* `if err != nil { return err }` after a step, else on to the next one.   *)
Goto(step, err) == IF err # Nil THEN "Failed" ELSE Order[StepIndex(step) + 1]
ReturnErr(err) == Some(err)

Init ==
  /\ safeNonce = 1
  /\ args \in [Invs -> CallArgs]
  /\ pc = [i \in Invs |-> "FetchNonce"]
  /\ nonce = [i \in Invs |-> None]
  /\ safeTxGas = [i \in Invs |-> None]
  /\ gnosisSafeTx = [i \in Invs |-> None]
  /\ encodedTxHash = [i \in Invs |-> None]
  /\ signature = [i \in Invs |-> None]
  /\ result = [i \in Invs |-> None]
  /\ steps = [i \in Invs |-> <<>>]
  /\ stepErrs = [i \in Invs |-> <<>>]
  /\ responses = [i \in Invs |-> <<>>]
  /\ rawSignature = [i \in Invs |-> None]
  /\ posted = [i \in Invs |-> <<>>]

(* The bookkeeping every step ends with.                                   *)
Finish(i, step, err) ==
  /\ pc' = [pc EXCEPT ![i] = Goto(step, err)]
  /\ result' = [result EXCEPT ![i] =
                  IF err # Nil THEN ReturnErr(err)
                  ELSE IF step = "Submit" THEN Some(Nil) ELSE @]
  /\ steps' = [steps EXCEPT ![i] = Append(@, step)]
  /\ stepErrs' = [stepErrs EXCEPT ![i] = Append(@, err)]

FetchNonce(i) ==
  /\ pc[i] = "FetchNonce"
  /\ \E resp \in FetchOutcomes(safeNonce) :
       LET r == getSafeNonce(resp)
       IN  /\ nonce' = [nonce EXCEPT ![i] = r.val]
           /\ responses' = [responses EXCEPT ![i] = Append(@, resp)]
           /\ Finish(i, "FetchNonce", r.err)
  /\ UNCHANGED <<safeNonce, args, safeTxGas, gnosisSafeTx, encodedTxHash,
                 signature, rawSignature, posted>>

EstimateGas(i) ==
  /\ pc[i] = "EstimateGas"
  /\ \E resp \in EstimateOutcomes :
       LET r == getGasEstimation(resp)
       IN  /\ safeTxGas' = [safeTxGas EXCEPT ![i] = r.val]
           /\ responses' = [responses EXCEPT ![i] = Append(@, resp)]
           /\ Finish(i, "EstimateGas", r.err)
  /\ UNCHANGED <<safeNonce, args, nonce, gnosisSafeTx, encodedTxHash,
                 signature, rawSignature, posted>>

BuildDigest(i) ==
  /\ pc[i] = "BuildDigest"
  /\ LET tx == GnosisSafeTx(args[i].from, args[i].to, args[i].safe,
                            args[i].amount, safeTxGas[i][1], nonce[i][1])
         r == BuildTxHash(tx)
     IN  /\ gnosisSafeTx' = [gnosisSafeTx EXCEPT ![i] = Some(tx)]
         /\ encodedTxHash' = [encodedTxHash EXCEPT ![i] = r.hash]
         /\ Finish(i, "BuildDigest", r.err)
  /\ UNCHANGED <<safeNonce, args, nonce, safeTxGas, signature, responses,
                 rawSignature, posted>>

Sign(i) ==
  /\ pc[i] = "Sign"
  /\ LET privateKey == HexToECDSA(args[i].privKey)
     IN  IF privateKey.err # Nil
         THEN /\ Finish(i, "Sign", privateKey.err)
              /\ UNCHANGED <<signature, rawSignature>>
         ELSE \E recid \in RecoveryIds :
                LET raw == cryptoSign(encodedTxHash[i][1], privateKey.key[1], recid)
                IN  /\ rawSignature' = [rawSignature EXCEPT ![i] = Some(raw)]
                    /\ signature' = [signature EXCEPT ![i] = Some(NormalizeV(raw))]
                    /\ Finish(i, "Sign", Nil)
  /\ UNCHANGED <<safeNonce, args, nonce, safeTxGas, gnosisSafeTx, encodedTxHash,
                 responses, posted>>

(* Mutant: the two int64 arguments safeTxGas and nonce change places.      *)
SubmitRequestSwapped(i) ==
  gnosisTxRequest(args[i].from, args[i].to, args[i].amount, nonce[i][1],
                  safeTxGas[i][1], Hex(encodedTxHash[i][1]), Hex(signature[i][1]))

(* Mutant: the nonce is a package-level variable, last written by any      *)
(* invocation.                                                             *)
SubmitRequestSharedNonce(i) ==
  LET others == {j \in Invs \ {i} : nonce[j] # None}
      n == IF others = {} THEN nonce[i][1] ELSE nonce[CHOOSE j \in others : TRUE][1]
  IN  gnosisTxRequest(args[i].from, args[i].to, args[i].amount, safeTxGas[i][1],
                      n, Hex(encodedTxHash[i][1]), Hex(signature[i][1]))

(* The arguments of the call of sendGnosisTx at line 244.                  *)
SubmitRequest(i) ==
  gnosisTxRequest(args[i].from, args[i].to, args[i].amount, safeTxGas[i][1],
                  nonce[i][1], Hex(encodedTxHash[i][1]), Hex(signature[i][1]))

Submit(i) ==
  /\ pc[i] = "Submit"
  /\ posted' = [posted EXCEPT ![i] = Append(@, SubmitRequest(i))]
  /\ \E resp \in SubmitOutcomes :
       /\ responses' = [responses EXCEPT ![i] = Append(@, resp)]
       /\ Finish(i, "Submit", sendGnosisTx(resp))
  /\ UNCHANGED <<safeNonce, args, nonce, safeTxGas, gnosisSafeTx, encodedTxHash,
                 signature, rawSignature>>

(* The Safe executes a transaction on chain: its counter moves on.         *)
SafeExecutes ==
  /\ safeNonce < MaxNonce
  /\ safeNonce' = safeNonce + 1
  /\ UNCHANGED <<args, locals, history>>

Next ==
  \/ \E i \in Invs : FetchNonce(i)
  \/ \E i \in Invs : EstimateGas(i)
  \/ \E i \in Invs : BuildDigest(i)
  \/ \E i \in Invs : Sign(i)
  \/ \E i \in Invs : Submit(i)
  \/ SafeExecutes

Spec == Init /\ [][Next]_vars

---------------------------------------------------------------------------
(* Shorthands for the properties below.                                    *)
Steps5 == SubSeq(Order, 1, 5)
IsSuccessStatus(code) == code \in 200..299
Answered(resp) == resp.err = Nil /\ resp.readErr = Nil
FetchResp(i) == responses[i][1]
EstimateResp(i) == responses[i][2]
SubmitResp(i) == responses[i][3]
NothingAfter(i, n) ==
  /\ Len(steps[i]) = n
  /\ n < 2 => safeTxGas[i] = None
  /\ n < 3 => gnosisSafeTx[i] = None /\ encodedTxHash[i] = None
  /\ n < 4 => signature[i] = None /\ rawSignature[i] = None
  /\ n < 5 => posted[i] = <<>>

(* C1: the steps of an invocation run in the order FetchNonce,             *)
(* EstimateGas, BuildDigest, Sign, Submit; a step starts only when every   *)
(* earlier one came back without error; none is skipped or run twice; and  *)
(* Done is reached only after Submit came back without error.              *)
C1_FixedOrder ==
  \A i \in Invs :
    /\ Len(steps[i]) <= 5
    /\ steps[i] = SubSeq(Order, 1, Len(steps[i]))
    /\ Len(stepErrs[i]) = Len(steps[i])
    /\ \A k \in 1..(Len(steps[i]) - 1) : stepErrs[i][k] = Nil
    /\ pc[i] \notin {"Done", "Failed"} =>
         /\ pc[i] = Order[Len(steps[i]) + 1]
         /\ \A k \in 1..Len(steps[i]) : stepErrs[i][k] = Nil
    /\ pc[i] = "Done" =>
         /\ steps[i] = Steps5
         /\ stepErrs[i][5] = Nil
         /\ Len(posted[i]) = 1
         /\ result[i] = Some(Nil)

C1_Witness ==
  \E i \in Invs : pc[i] = "Done" /\ steps[i] = Steps5 /\ result[i] = Some(Nil)

(* C2: a step that fails ends the invocation in Failed with exactly that   *)
(* step's error, no later step runs, and a submit request is sent only     *)
(* after fetch, estimate, digest and signing all succeeded.                *)
C2_FailFast ==
  \A i \in Invs :
    /\ \A k \in 1..Len(stepErrs[i]) :
         stepErrs[i][k] # Nil =>
           /\ pc[i] = "Failed"
           /\ result[i] = Some(stepErrs[i][k])
           /\ NothingAfter(i, k)
    /\ pc[i] = "Failed" =>
         Len(steps[i]) >= 1 /\ stepErrs[i][Len(steps[i])] # Nil
    /\ posted[i] # <<>> =>
         /\ Len(posted[i]) = 1
         /\ Len(steps[i]) = 5
         /\ \A k \in 1..4 : stepErrs[i][k] = Nil
         /\ nonce[i] # None /\ safeTxGas[i] # None
         /\ encodedTxHash[i] # None /\ signature[i] # None

C2_Witness ==
  \E i, j \in Invs :
    /\ pc[i] = "Failed" /\ steps[i] = SubSeq(Order, 1, 3)
    /\ result[i] = Some(ErrTypedData)
    /\ pc[j] = "Failed" /\ steps[j] = SubSeq(Order, 1, 4)
    /\ result[j] = Some(ErrKey) /\ posted[j] = <<>>

(* C3: sendGnosisTx returns nil whenever the submit request is answered    *)
(* with an HTTP success status (2xx), whatever the body.                   *)
C3_SuccessStatusIsSuccess ==
  \A i \in Invs :
    (/\ Len(steps[i]) = 5
     /\ SubmitResp(i).err = Nil
     /\ IsSuccessStatus(SubmitResp(i).StatusCode))
    => (stepErrs[i][5] = Nil /\ pc[i] = "Done")

(* The message is the strings of the list in order, one newline between    *)
(* neighbours, stated by positions.                                        *)
RECURSIVE Offset(_, _)
Offset(l, k) == IF k = 1 THEN 0 ELSE Offset(l, k - 1) + Len(l[k - 1]) + 1

IsJoinOf(m, l) ==
  IF l = <<>> THEN m = <<>>
  ELSE /\ Len(m) = Offset(l, Len(l)) + Len(l[Len(l)])
       /\ \A k \in 1..Len(l) :
            /\ SubSeq(m, Offset(l, k) + 1, Offset(l, k) + Len(l[k])) = l[k]
            /\ k > 1 => m[Offset(l, k)] = "\n"

(* C4: a submit answered with a non-success status and a body whose        *)
(* nonFieldErrors is a list yields an error, never nil, whose message is   *)
(* the list joined by single newlines (the empty and the one-element list  *)
(* included); a body that cannot be decoded yields the decode error.       *)
C4_RejectionMessage ==
  \A i \in Invs :
    (/\ Len(steps[i]) = 5
     /\ Answered(SubmitResp(i))
     /\ ~IsSuccessStatus(SubmitResp(i).StatusCode))
    => LET body == SubmitResp(i).Body
           e == stepErrs[i][5]
       IN  /\ e # Nil /\ pc[i] = "Failed" /\ result[i] = Some(e)
           /\ IsA(body, "invalid") => e = ErrJSONSyntax
           /\ (IsA(body, "obj") /\ "nonFieldErrors" \in DOMAIN body.obj) =>
                IF IsA(body.obj.nonFieldErrors, "arr")
                THEN /\ e.type = "errors.errorString"
                     /\ IsJoinOf(e.s, body.obj.nonFieldErrors.arr)
                ELSE e = ErrJSONType

C4_Witness ==
  \E i, j \in Invs :
    /\ Len(steps[i]) = 5 /\ Len(steps[j]) = 5
    /\ SubmitResp(i) = Resp(400, JObj([nonFieldErrors |->
                                         JArr(<<NonceTooLow, InvalidSignature>>)]))
    /\ result[i] = Some(errorsNew(NonceTooLow \o <<"\n">> \o InvalidSignature))
    /\ SubmitResp(j) = Resp(400, JObj([nonFieldErrors |-> JArr(<<>>)]))
    /\ result[j] = Some(errorsNew(<<>>))

(* Bytes on which the normalisation is tried besides those crypto.Sign     *)
(* returns.                                                                *)
ProbeBytes == {0, 1, 2, 3, 26, 27, 28, 29, 229, 255}

(* C5: the signer turns recovery id 0 into 27 and 1 into 28, leaves any    *)
(* other value of v alone, never touches r and s, and every signature in   *)
(* a submit request has v in {27, 28}.                                     *)
C5_RecoveryId ==
  /\ \A b \in ProbeBytes :
       NormalizeV([rs |-> "rs", v |-> b]) =
         [rs |-> "rs", v |-> IF b = 0 THEN 27 ELSE IF b = 1 THEN 28 ELSE b]
  /\ \A i \in Invs :
       /\ signature[i] # None =>
            /\ rawSignature[i] # None
            /\ signature[i][1].rs = rawSignature[i][1].rs
            /\ rawSignature[i][1].v = 0 => signature[i][1].v = 27
            /\ rawSignature[i][1].v = 1 => signature[i][1].v = 28
       /\ posted[i] # <<>> =>
            /\ posted[i][1].signature = Hex(signature[i][1])
            /\ posted[i][1].signature.hex.v \in {27, 28}

C5_Witness ==
  \E i, j \in Invs :
    /\ posted[i] # <<>> /\ rawSignature[i][1].v = 0
    /\ posted[i][1].signature.hex.v = 27
    /\ posted[j] # <<>> /\ rawSignature[j][1].v = 1
    /\ posted[j][1].signature.hex.v = 28

(* C6: the proposal submitted agrees with the message hashed and signed:   *)
(* nonce and safeTxGas are what this invocation's fetch and estimate       *)
(* returned, to and value are the caller's, operation, gasPrice and        *)
(* baseGas are 0, gasToken and refundReceiver are the zero address, and    *)
(* contractTransactionHash is the digest that was signed.                  *)
C6_ProposalMatchesMessage ==
  \A i \in Invs :
    posted[i] # <<>> =>
      LET req == posted[i][1]
          tx == gnosisSafeTx[i][1]
          msg == encodedTxHash[i][1].keccak[4].keccak[2]
          fetched == getSafeNonce(FetchResp(i)).val[1]
          estimated == getGasEstimation(EstimateResp(i)).val[1]
          zero == [k \in 1..AddressLength |-> 0]
      IN  /\ msg = ToTypedData(tx).Message
          /\ req.nonce = fetched /\ msg.nonce = fetched
          /\ req.safeTxGas = estimated /\ msg.safeTxGas = estimated
          /\ req.to = args[i].to /\ msg.to = HexToAddress(args[i].to)
          /\ HexToAddress(req.to) = msg.to
          /\ req.value = args[i].amount /\ msg.value = args[i].amount
          /\ req.operation = 0 /\ msg.operation = 0
          /\ req.gasPrice = 0 /\ msg.gasPrice = 0
          /\ req.baseGas = 0 /\ msg.baseGas = 0
          /\ req.gasToken = ZERO_ADDR /\ msg.gasToken = zero
          /\ HexToAddress(req.gasToken) = msg.gasToken
          /\ req.refundReceiver = ZERO_ADDR /\ msg.refundReceiver = zero
          /\ req.contractTransactionHash = Hex(encodedTxHash[i][1])
          /\ rawSignature[i][1].rs.of = encodedTxHash[i][1]
          /\ req.signature.hex.rs.of = encodedTxHash[i][1]

C6_Witness ==
  \E i \in Invs :
    /\ posted[i] # <<>>
    /\ args[i].to = RECEIVER_MIXED
    /\ posted[i][1].nonce = 2 /\ posted[i][1].safeTxGas = 21000
    /\ gnosisSafeTx[i][1].Nonce = 2 /\ gnosisSafeTx[i][1].SafeTxGas = 21000

(* A base-10 integer in writing: an optional sign, then one digit or more. *)
Unsigned(s) == IF s # <<>> /\ s[1] \in {"+", "-"} THEN Tail(s) ELSE s
IsBase10(s) ==
  /\ Unsigned(s) # <<>>
  /\ \A k \in 1..Len(Unsigned(s)) : Unsigned(s)[k] \in DOMAIN DecDigits
RECURSIVE Pow10(_)
Pow10(n) == IF n = 0 THEN 1 ELSE 10 * Pow10(n - 1)
RECURSIVE SumDigits(_, _)
SumDigits(d, k) ==
  IF k > Len(d) THEN 0
  ELSE DecDigits[d[k]] * Pow10(Len(d) - k) + SumDigits(d, k + 1)
Base10Value(s) ==
  IF s[1] = "-" THEN 0 - SumDigits(Unsigned(s), 1) ELSE SumDigits(Unsigned(s), 1)
(* Nine digits or fewer are well inside 64 bits (and inside TLC's numbers). *)
Short(s) == Len(Unsigned(s)) <= 9

(* C7: getGasEstimation returns the integer its safeTxGas string denotes   *)
(* ("21000" gives 21000) and fails with a numeric parse error, with no     *)
(* estimate, when the string is no base-10 integer (absent and empty       *)
(* included); after that no digest is built, nothing signed or submitted.  *)
C7_GasParse ==
  /\ ParseInt(<<"2","1","0","0","0">>) = [err |-> Nil, val |-> 21000]
  /\ \A i \in Invs :
       (/\ Len(steps[i]) >= 2
        /\ Answered(EstimateResp(i))
        /\ Unmarshal(EstimateResp(i).Body, "safeTxGas", "str", <<>>).err = Nil)
       => LET s == Unmarshal(EstimateResp(i).Body, "safeTxGas", "str", <<>>).val
              e == stepErrs[i][2]
          IN  /\ (IsBase10(s) /\ Short(s)) =>
                   e = Nil /\ safeTxGas[i] = Some(Base10Value(s))
              /\ (IsBase10(s) /\ ~Short(s)) => e \in {Nil, ErrRange}
              /\ ~IsBase10(s) => e = ErrSyntax
              /\ e # Nil =>
                   /\ e.type = "strconv.NumError"
                   /\ pc[i] = "Failed" /\ result[i] = Some(e)
                   /\ NothingAfter(i, 2)

C7_Witness ==
  \E i, j \in Invs :
    /\ Len(steps[i]) >= 2
    /\ EstimateResp(i) = Resp(200, JObj([safeTxGas |-> JStr(<<"2","1","0","0","0">>)]))
    /\ safeTxGas[i] = Some(21000)
    /\ Len(steps[j]) >= 2
    /\ EstimateResp(j) = Resp(200, JObj([safeTxGas |-> JStr(<<"a","b","c">>)]))
    /\ pc[j] = "Failed" /\ result[j] = Some(ErrSyntax) /\ steps[j] = SubSeq(Order, 1, 2)

DigestInputs(i) ==
  <<args[i].from, args[i].safe, args[i].to, args[i].amount, safeTxGas[i], nonce[i]>>

LocalsOf(i) ==
  <<args[i], pc[i], nonce[i], safeTxGas[i], gnosisSafeTx[i], encodedTxHash[i],
    signature[i], result[i], posted[i]>>

(* C9: two invocations for the same account share no state: a step of one  *)
(* leaves the other's data alone, and each submits the nonce it fetched    *)
(* itself (so both may submit the same nonce).                             *)
C9_NoSharedState ==
  [][\A i \in Invs :
       /\ pc'[i] # pc[i] => \A j \in Invs \ {i} : LocalsOf(j)' = LocalsOf(j)
       /\ posted'[i] # posted[i] =>
            /\ Len(posted'[i]) = 1
            /\ posted'[i][1].nonce = getSafeNonce(FetchResp(i)).val[1]
            /\ posted'[i][1].nonce = nonce[i][1]]_vars

C9_Witness ==
  \E i, j \in Invs :
    /\ i # j
    /\ posted[i] # <<>> /\ posted[j] # <<>>
    /\ FetchResp(i) = Resp(200, JObj([nonce |-> JNum(1)]))
    /\ FetchResp(j) = FetchResp(i)
    /\ posted[i][1].nonce = 1 /\ posted[j][1].nonce = 1
    /\ SubmitResp(i) = Resp(200, NotJSON(""))
    /\ SubmitResp(j) = Resp(400, JObj([nonFieldErrors |-> JArr(<<NonceTooLow>>)]))

(* A body json.Unmarshal can put into safeNonceResponse.                   *)
DecodableNonce(body) ==
  \/ IsA(body, "null")
  \/ /\ IsA(body, "obj")
     /\ "nonce" \in DOMAIN body.obj => \/ IsA(body.obj.nonce, "num")
                                       \/ IsA(body.obj.nonce, "null")

(* C10: getSafeNonce fails only on a transport failure or a body that      *)
(* cannot be decoded; the status is never looked at; a decodable object    *)
(* without nonce gives the counter 0, with which the flow goes on.         *)
C10_FetchIgnoresStatus ==
  \A i \in Invs :
    Len(steps[i]) >= 1 =>
      LET resp == FetchResp(i)
          e == stepErrs[i][1]
      IN  /\ e # Nil <=> (~Answered(resp) \/ ~DecodableNonce(resp.Body))
          /\ ~Answered(resp) => e \in {ErrTransport, ErrRead}
          /\ (Answered(resp) /\ ~DecodableNonce(resp.Body)) =>
               e \in {ErrJSONSyntax, ErrJSONType}
          /\ e # Nil => nonce[i] = None /\ pc[i] = "Failed"
          /\ (Answered(resp) /\ IsA(resp.Body, "obj")) =>
               IF "nonce" \notin DOMAIN resp.Body.obj
               THEN e = Nil /\ nonce[i] = Some(0)
               ELSE IsA(resp.Body.obj.nonce, "num") =>
                      e = Nil /\ nonce[i] = Some(resp.Body.obj.nonce.num)

C10_Witness ==
  \E i \in Invs :
    /\ Len(steps[i]) = 5
    /\ FetchResp(i) = Resp(404, NotFound)
    /\ nonce[i] = Some(0)
    /\ gnosisSafeTx[i][1].Nonce = 0
    /\ posted[i] # <<>> /\ posted[i][1].nonce = 0
=============================================================================
